---- MODULE Spec2Model ----
(***************************************************************************)
(* Author attribution of scripts/postprocess-manifests.ts: the commit line *)
(* parser (getKeiyoushiCommits), the cached historical snapshot            *)
(* (loadHistoricalCommits), the merge by email, the dedupe by identity and *)
(* the final sort (getAuthors).                                            *)
(*                                                                         *)
(* Strings the code takes apart are sequences of tokens: an email is a     *)
(* sequence of one-character tokens and domain tokens, a log line is the   *)
(* sequence of its "|"-separated fields, a date-time field is <<day, time>>*)
(* (what stands left and right of the "T").  A day is a number: ISO dates  *)
(* of equal length compare as their day numbers do.  Names and the         *)
(* snapshot's commit counts are only copied and added by the code, never   *)
(* tested, so every input record carries its own name and its own power of *)
(* ten as count: a sum then tells which records went into it.              *)
(***************************************************************************)
EXTENDS Integers, Sequences, FiniteSets, TLC

\* ------------------------------------------------------------------ bounds
\* Longest historical contributor list of a unit in the snapshot file.
MaxHist == 2
\* Most lines of one git log output.
MaxLines == 2

\* Calendar days ("2024-01-01", "2024-01-02") that commits carry.
Days == {1, 2}
\* Time part of an author date (%aI), right of the "T".
Times == {"10:00:00+00:00"}
\* Times of the day for the parser alone.
ParserTimes == {"10:00:00+00:00", "23:59:59+00:00"}

\* ------------------------------------------------------------ string model
NOREPLY == "users.noreply.github.com"
Digits == {"0", "1", "2", "3", "4", "5", "6", "7", "8", "9"}

\* 1+a@users.noreply.github.com, A@users.noreply.github.com, a@x.com, A@x.com
E1 == <<"1", "+", "a", "@", NOREPLY>>
E2 == <<"A", "@", NOREPLY>>
E3 == <<"a", "@", "x.com">>
E4 == <<"A", "@", "x.com">>

\* a (an author address without domain), a@users.noreply.github.com
E5 == <<"a">>
E6 == <<"a", "@", NOREPLY>>

\* Addresses of the historical snapshot and of the live log.
HistEmails == {E1, E2, E3, E4}
LiveEmails == {E1, E3}
\* Addresses for the identity of one contributor: with and without numeric
\* prefix, in both cases of the handle, the bare handle, a personal address.
IdentityEmails == {E1, E2, E3, E5, E6}

\* null, and the empty string, of a handle: the regular expression's group
\* [^@]+ is never empty, so no handle is the empty sequence.
Null == <<>>

\* String.prototype.toLowerCase, token by token.
LowerTok(t) == CASE t = "A" -> "a" [] t = "B" -> "b" [] OTHER -> t
toLowerCase(s) == [i \in 1..Len(s) |-> LowerTok(s[i])]

\* Number of leading digits of s (the greedy \d+).
RECURSIVE DigitRun(_)
DigitRun(s) ==
    IF s # <<>> /\ Head(s) \in Digits THEN 1 + DigitRun(Tail(s)) ELSE 0

NoAt(s) == \A i \in 1..Len(s) : s[i] # "@"

\* extractGithubFromNoreply whose numeric prefix is not optional:
\* /^\d+\+([^@]+)@users\.noreply\.github\.com$/.
extractGithubFromNoreply_PrefixRequired(email) ==
    IF Len(email) >= 3 /\ email[Len(email) - 1] = "@" /\ email[Len(email)] = NOREPLY
    THEN LET local == SubSeq(email, 1, Len(email) - 2)
             k     == DigitRun(local)
             rest  == SubSeq(local, k + 2, Len(local))
         IN  IF ~NoAt(local) THEN Null
             ELSE IF k >= 1 /\ Len(local) > k /\ local[k + 1] = "+" /\ rest # <<>>
                  THEN rest
                  ELSE Null
    ELSE Null

\* email.match(/^(?:\d+\+)?([^@]+)@users\.noreply\.github\.com$/): group 1
\* or null.  The optional prefix is tried first; it is given up when nothing
\* would be left for the group.
extractGithubFromNoreply(email) ==
    IF Len(email) >= 3 /\ email[Len(email) - 1] = "@" /\ email[Len(email)] = NOREPLY
    THEN LET local == SubSeq(email, 1, Len(email) - 2)
             k     == DigitRun(local)
             rest  == SubSeq(local, k + 2, Len(local))
         IN  IF ~NoAt(local) THEN Null
             ELSE IF k >= 1 /\ Len(local) > k /\ local[k + 1] = "+" /\ rest # <<>>
                  THEN rest
                  ELSE local
    ELSE Null

\* const key = github?.toLowerCase() ?? c.email.toLowerCase()
IdentityKey(email) ==
    LET github == extractGithubFromNoreply(email)
    IN  IF github # Null THEN toLowerCase(github) ELSE toLowerCase(email)

\* ------------------------------------------------------------- input space
\* Units (extension paths) the script is asked about.
Units == {"en/a"}

HistName(i) == "h" \o ToString(i)
LineName(j) == "l" \o ToString(j)
HistCommits(i) == 10 ^ i

\* One unit's ContributorData[] of data/historical-commits.json.  The file is
\* written by another tool: nothing in this script makes its addresses
\* distinct.
HistListsOver(emails) ==
    UNION { { [i \in 1..n |-> [email |-> es[i], name |-> HistName(i),
                               commits |-> HistCommits(i), firstCommit |-> ds[i]]]
              : es \in [1..n -> emails], ds \in [1..n -> Days] }
            : n \in 0..MaxHist }
HistLists == HistListsOver(HistEmails)

\* The file system's data/historical-commits.json: <<>> when the file does
\* not exist, else <<its parsed content>>.
FilesOver(lists) ==
    {<<>>} \cup { <<[extensions |-> m]>> :
                  m \in UNION { [D -> lists] : D \in SUBSET Units } }
Files == FilesOver(HistLists)

\* A log line "%ae|%an|%aI" as its fields.  A field the line does not have
\* is undefined; an empty field is the empty string.
OkLine(e, j, d, t) == <<e, LineName(j), <<d, t>>>>
NoDateLine(j) == <<E3, LineName(j), <<>>>>     \* "a@x.com|l1|"
ShortLine(j) == <<E3, LineName(j)>>            \* "a@x.com|l1"
NoNameLine(j) == <<E3, "", <<1, "10:00:00+00:00">>>>
NoEmailLine(j) == <<<<>>, LineName(j), <<1, "10:00:00+00:00">>>>
BlankLine == << <<>> >>                        \* "" between two newlines

OkLines(j) == { OkLine(e, j, d, t) : e \in LiveEmails, d \in Days, t \in Times }
CoreLines(j) == OkLines(j) \cup {NoDateLine(j)}
AllLines(j) ==
    { OkLine(e, j, d, t) : e \in LiveEmails, d \in Days, t \in ParserTimes }
        \cup {NoDateLine(j), ShortLine(j), NoNameLine(j), NoEmailLine(j), BlankLine}

\* What git log prints for the unit, newest commit first, split at "\n".
\* L[j] are the lines that can stand at position j.
LogsOver(L, max) ==
    UNION { { ls \in [1..n -> UNION { L[j] : j \in 1..n }] :
              \A j \in 1..n : ls[j] \in L[j] }
            : n \in 0..max }
Logs == LogsOver([j \in 1..MaxLines |-> CoreLines(j)], MaxLines)

\* ------------------------------------------------------------ array helpers
RECURSIVE Reverse(_)
Reverse(s) == IF s = <<>> THEN <<>> ELSE Append(Reverse(Tail(s)), Head(s))

\* Position of the entry of map m (a sequence in insertion order) whose
\* field f is k; 0 when there is none.  Map keys are compared exactly.
IndexOfEmail(m, k) ==
    LET S == { i \in 1..Len(m) : m[i].email = k }
    IN  IF S = {} THEN 0 ELSE CHOOSE i \in S : TRUE
IndexOfKey(m, k) ==
    LET S == { i \in 1..Len(m) : m[i].key = k }
    IN  IF S = {} THEN 0 ELSE CHOOSE i \in S : TRUE

\* ------------------------------------------------------- getKeiyoushiCommits
\* !field of the destructured [email, name, date]
Falsy(line, i) ==
    \/ i > Len(line)
    \/ i = 2 /\ line[i] = ""
    \/ i # 2 /\ line[i] = <<>>

\* .filter(Boolean) on the lines of the output
Truthy(line) == Len(line) # 1 \/ line[1] # <<>>
FilterBoolean(ls) == SelectSeq(ls, Truthy)

\* date.split("T")[0]; of the empty string it is the empty string, which is
\* less than every date.
DateOnly(date) == IF date = <<>> THEN 0 ELSE date[1]

\* ParseLine without the test of the date field.
ParseLine_DateNotChecked(m, line) ==
    IF Falsy(line, 1) \/ Falsy(line, 2) THEN m
    ELSE LET email    == line[1]
             name     == line[2]
             dateOnly == IF Len(line) >= 3 THEN DateOnly(line[3]) ELSE 0
             k        == IndexOfEmail(m, email)
         IN  IF k # 0
             THEN [m EXCEPT ![k].commits = @ + 1,
                            ![k].firstCommit = IF dateOnly < @ THEN dateOnly ELSE @]
             ELSE Append(m, [email |-> email, name |-> name,
                             commits |-> 1, firstCommit |-> dateOnly])

\* ParseLine without existing.commits++.
ParseLine_CountNotIncremented(m, line) ==
    IF Falsy(line, 1) \/ Falsy(line, 2) \/ Falsy(line, 3) THEN m
    ELSE LET email    == line[1]
             name     == line[2]
             dateOnly == DateOnly(line[3])
             k        == IndexOfEmail(m, email)
         IN  IF k # 0
             THEN [m EXCEPT ![k].firstCommit = IF dateOnly < @ THEN dateOnly ELSE @]
             ELSE Append(m, [email |-> email, name |-> name,
                             commits |-> 1, firstCommit |-> dateOnly])

\* One pass of the loop over commits.reverse().
ParseLine(m, line) ==
    IF Falsy(line, 1) \/ Falsy(line, 2) \/ Falsy(line, 3) THEN m
    ELSE LET email    == line[1]
             name     == line[2]
             dateOnly == DateOnly(line[3])
             k        == IndexOfEmail(m, email)
         IN  IF k # 0
             THEN [m EXCEPT ![k].commits = @ + 1,
                            ![k].firstCommit = IF dateOnly < @ THEN dateOnly ELSE @]
             ELSE Append(m, [email |-> email, name |-> name,
                             commits |-> 1, firstCommit |-> dateOnly])

RECURSIVE ParseLines(_, _)
ParseLines(m, ls) ==
    IF ls = <<>> THEN m ELSE ParseLines(ParseLine(m, Head(ls)), Tail(ls))

\* ---------------------------------------------------------------- getAuthors
\* SetHistorical that only replaces records it already has.
SetHistorical_NotInserted(m, c) ==
    LET k == IndexOfEmail(m, c.email)
    IN  IF k # 0 THEN [m EXCEPT ![k] = c] ELSE m

\* for (const c of historical) byEmail.set(c.email, { ...c })
SetHistorical(m, c) ==
    LET k == IndexOfEmail(m, c.email)
    IN  IF k # 0 THEN [m EXCEPT ![k] = c] ELSE Append(m, c)

\* MergeLive with existing.commits = c.commits.
MergeLive_CountOverwritten(m, c) ==
    LET k == IndexOfEmail(m, c.email)
    IN  IF k # 0
        THEN [m EXCEPT ![k].commits = c.commits,
                       ![k].firstCommit = IF c.firstCommit < @ THEN c.firstCommit ELSE @]
        ELSE Append(m, c)

\* MergeLive with c.firstCommit > existing.firstCommit.
MergeLive_LaterDateWins(m, c) ==
    LET k == IndexOfEmail(m, c.email)
    IN  IF k # 0
        THEN [m EXCEPT ![k].commits = @ + c.commits,
                       ![k].firstCommit = IF c.firstCommit > @ THEN c.firstCommit ELSE @]
        ELSE Append(m, c)

\* One pass of the loop over keiyoushi.
MergeLive(m, c) ==
    LET k == IndexOfEmail(m, c.email)
    IN  IF k # 0
        THEN [m EXCEPT ![k].commits = @ + c.commits,
                       ![k].firstCommit = IF c.firstCommit < @ THEN c.firstCommit ELSE @]
        ELSE Append(m, c)

\* The dedupe step with its parts to choose: the handle and the key of the
\* record, the commits it adds, whether a record of the same date replaces
\* the identity's date, and whether the name follows the date.
DedupeWith(m, c, github, key, added, tie, named) ==
    LET k == IndexOfKey(m, key)
        replaces == IF k = 0 THEN FALSE
                    ELSE \/ c.firstCommit < m[k].firstCommit
                         \/ tie /\ c.firstCommit = m[k].firstCommit
    IN  IF k # 0
        THEN [m EXCEPT ![k].commits = @ + added,
                       ![k].firstCommit = IF replaces THEN c.firstCommit ELSE @,
                       ![k].name = IF named /\ replaces THEN c.name ELSE @,
                       ![k].github = IF github # Null /\ @ = Null THEN github ELSE @]
        ELSE Append(m, [key |-> key, github |-> github, name |-> c.name,
                        commits |-> c.commits, firstCommit |-> c.firstCommit])

\* Dedupe without existing.commits += c.commits.
Dedupe_CommitsNotAdded(m, c) ==
    DedupeWith(m, c, extractGithubFromNoreply(c.email), IdentityKey(c.email),
               0, FALSE, TRUE)

\* Dedupe with the handle as key, not lower-cased.
Dedupe_HandleNotFolded(m, c) ==
    LET github == extractGithubFromNoreply(c.email)
    IN  DedupeWith(m, c, github,
                   IF github # Null THEN github ELSE toLowerCase(c.email),
                   c.commits, FALSE, TRUE)

\* Dedupe that takes a handle from an address of any domain.
Dedupe_AnyDomain(m, c) ==
    LET github == extractGithubFromNoreply(
                      SubSeq(c.email, 1, Len(c.email) - 1) \o <<NOREPLY>>)
    IN  DedupeWith(m, c, github,
                   IF github # Null THEN toLowerCase(github) ELSE toLowerCase(c.email),
                   c.commits, FALSE, TRUE)

\* Dedupe without existing.name = c.name.
Dedupe_NameKept(m, c) ==
    DedupeWith(m, c, extractGithubFromNoreply(c.email), IdentityKey(c.email),
               c.commits, FALSE, FALSE)

\* Dedupe with c.firstCommit <= existing.firstCommit.
Dedupe_TieReplacesName(m, c) ==
    DedupeWith(m, c, extractGithubFromNoreply(c.email), IdentityKey(c.email),
               c.commits, TRUE, TRUE)

\* Dedupe with existing.github = github, whatever it is.
Dedupe_HandleOverwritten(m, c) ==
    LET github == extractGithubFromNoreply(c.email)
        key    == IdentityKey(c.email)
        k      == IndexOfKey(m, key)
    IN  IF k # 0
        THEN LET earlier == c.firstCommit < m[k].firstCommit
             IN  [m EXCEPT ![k].commits = @ + c.commits,
                           ![k].firstCommit = IF earlier THEN c.firstCommit ELSE @,
                           ![k].name = IF earlier THEN c.name ELSE @,
                           ![k].github = github]
        ELSE Append(m, [key |-> key, github |-> github, name |-> c.name,
                        commits |-> c.commits, firstCommit |-> c.firstCommit])

\* One pass of the loop over byEmail.values().
Dedupe(m, c) ==
    LET github == extractGithubFromNoreply(c.email)
        key    == IdentityKey(c.email)
        k      == IndexOfKey(m, key)
    IN  IF k # 0
        THEN LET earlier == c.firstCommit < m[k].firstCommit
             IN  [m EXCEPT ![k].commits = @ + c.commits,
                           ![k].firstCommit = IF earlier THEN c.firstCommit ELSE @,
                           ![k].name = IF earlier THEN c.name ELSE @,
                           ![k].github = IF github # Null /\ @ = Null THEN github ELSE @]
        ELSE Append(m, [key |-> key, github |-> github, name |-> c.name,
                        commits |-> c.commits, firstCommit |-> c.firstCommit])

\* Array.from(byIdentity.values()): the AuthorOutput objects, without the key.
Values(m) ==
    [i \in 1..Len(m) |-> [github |-> m[i].github, name |-> m[i].name,
                          commits |-> m[i].commits, firstCommit |-> m[i].firstCommit]]

\* a.firstCommit.localeCompare(b.firstCommit) <= 0
LocaleLeq(a, b) == a.firstCommit <= b.firstCommit

\* InsertSorted that puts an element before the elements equal to it.
InsertSorted_BeforeEqual(s, x) ==
    LET n == Cardinality({ j \in 1..Len(s) : s[j].firstCommit < x.firstCommit })
    IN  SubSeq(s, 1, n) \o <<x>> \o SubSeq(s, n + 1, Len(s))

\* .sort(compare): Array.prototype.sort is stable, so the result is the
\* insertion of each element behind the elements not greater than it.
InsertSorted(s, x) ==
    LET n == Cardinality({ j \in 1..Len(s) : LocaleLeq(s[j], x) })
    IN  SubSeq(s, 1, n) \o <<x>> \o SubSeq(s, n + 1, Len(s))

RECURSIVE SortFrom(_, _)
SortFrom(acc, s) ==
    IF s = <<>> THEN acc ELSE SortFrom(InsertSorted(acc, Head(s)), Tail(s))
\* The sort with b.firstCommit.localeCompare(a.firstCommit).
SortByFirstCommit_Descending(s) == Reverse(SortFrom(<<>>, s))
SortByFirstCommit(s) == SortFrom(<<>>, s)

\* --------------------------------------------------------------------- state
VARIABLES
    file,                    \* data/historical-commits.json on disk
    gitLog,                  \* what git log prints for the unit
    historicalCommitsCache,  \* <<>> is null, else <<data>>
    pc,                      \* where getAuthors stands
    extensionPath,           \* its argument
    historical,              \* historicalData.extensions[extensionPath] ?? []
    commits,                 \* lines the parser has still to read
    parsed,                  \* the parser's byEmail map
    keiyoushi,               \* what getKeiyoushiCommits returned
    idx,                     \* position of the running for-of loop
    byEmail,                 \* Map<email, ContributorData>, insertion order
    byIdentity,              \* Map<key, AuthorOutput>, insertion order
    result,                  \* the returned AuthorOutput[]
    algebra,                 \* three sources and their merges (SpecMerge)
    alias                    \* alias[i] = j: the object byEmail[i] is the
                             \* object historical[j]; 0: an object of its own

vars == <<file, gitLog, historicalCommitsCache, pc, extensionPath, historical,
          commits, parsed, keiyoushi, idx, byEmail, byIdentity, result, algebra,
          alias>>
env == <<file, gitLog, algebra>>

\* The loop that runs next, from loop `from` on: loops over nothing are not
\* entered.
LoopFrom(from, h, k, m) ==
    IF from = "mergeHist" /\ h # <<>> THEN "mergeHist"
    ELSE IF from \in {"mergeHist", "mergeLive"} /\ k # <<>> THEN "mergeLive"
    ELSE IF m # <<>> THEN "dedupe"
    ELSE "sort"

InitWith(files, logs) ==
    /\ file \in files
    /\ gitLog \in logs
    /\ historicalCommitsCache = <<>>
    /\ pc = "idle"
    /\ extensionPath = ""
    /\ historical = <<>>
    /\ commits = <<>>
    /\ parsed = <<>>
    /\ keiyoushi = <<>>
    /\ idx = 0
    /\ byEmail = <<>>
    /\ byIdentity = <<>>
    /\ result = <<>>
    /\ alias = <<>>

\* The merge by email of getAuthors as a function of its two sources:
\* lines 111-127 with A as historical and B as keiyoushi.
RECURSIVE SetAll(_, _)
SetAll(m, A) == IF A = <<>> THEN m ELSE SetAll(SetHistorical(m, Head(A)), Tail(A))
RECURSIVE MergeAll(_, _)
MergeAll(m, B) == IF B = <<>> THEN m ELSE MergeAll(MergeLive(m, Head(B)), Tail(B))
MergeByEmail(A, B) == MergeAll(SetAll(<<>>, A), B)

NoSources == [pc |-> "off", A |-> <<>>, B |-> <<>>, C |-> <<>>, AB |-> <<>>,
              BA |-> <<>>, BC |-> <<>>, left |-> <<>>, right |-> <<>>]

Init == InitWith(Files, Logs) /\ algebra = NoSources

\* loadHistoricalCommits(): the cache when it is set, else the file's content
\* ({ extensions: {} } without a file).
loadHistoricalCommits ==
    IF historicalCommitsCache # <<>> THEN historicalCommitsCache[1]
    ELSE IF file # <<>> THEN file[1]
    ELSE [extensions |-> [u \in {} |-> <<>>]]

\* getAuthors(extensionPath), lines 106-107.
GetAuthors(ext) ==
    /\ pc = "idle"
    /\ LET historicalData == loadHistoricalCommits
       IN  /\ historicalCommitsCache' = <<historicalData>>
           /\ historical' = IF ext \in DOMAIN historicalData.extensions
                            THEN historicalData.extensions[ext] ELSE <<>>
    /\ extensionPath' = ext
    /\ pc' = "query"
    /\ UNCHANGED <<env, alias, commits, parsed, keiyoushi, idx, byEmail, byIdentity, result>>

\* getKeiyoushiCommits returned []: the source path does not exist.
NoSourcePath ==
    /\ pc = "query"
    /\ keiyoushi' = <<>>
    /\ pc' = LoopFrom("mergeHist", historical, <<>>, <<>>)
    /\ idx' = 1
    /\ UNCHANGED <<env, alias, historicalCommitsCache, extensionPath, historical, commits,
                   parsed, byEmail, byIdentity, result>>

\* getKeiyoushiCommits returned []: execSync threw.
QueryFault ==
    /\ pc = "query"
    /\ keiyoushi' = <<>>
    /\ pc' = LoopFrom("mergeHist", historical, <<>>, <<>>)
    /\ idx' = 1
    /\ UNCHANGED <<env, alias, historicalCommitsCache, extensionPath, historical, commits,
                   parsed, byEmail, byIdentity, result>>

\* execSync returned the log: lines 78-79.
QueryOutput ==
    /\ pc = "query"
    /\ commits' = Reverse(FilterBoolean(gitLog))
    /\ parsed' = <<>>
    /\ pc' = "parse"
    /\ UNCHANGED <<env, alias, historicalCommitsCache, extensionPath, historical, keiyoushi,
                   idx, byEmail, byIdentity, result>>

\* One line of the parser's loop, lines 81-96.
ParseStep ==
    /\ pc = "parse"
    /\ commits # <<>>
    /\ parsed' = ParseLine(parsed, Head(commits))
    /\ commits' = Tail(commits)
    /\ UNCHANGED <<env, alias, historicalCommitsCache, pc, extensionPath, historical,
                   keiyoushi, idx, byEmail, byIdentity, result>>

\* The parser returns its entries, lines 98-99.
ParseReturn ==
    /\ pc = "parse"
    /\ commits = <<>>
    /\ keiyoushi' = parsed
    /\ parsed' = <<>>
    /\ pc' = LoopFrom("mergeHist", historical, parsed, <<>>)
    /\ idx' = 1
    /\ UNCHANGED <<env, alias, historicalCommitsCache, extensionPath, historical, commits,
                   byEmail, byIdentity, result>>

\* The object that { ...c } is, for c = historical[j]: a new one.
CopyOf_SameObject(j) == j
CopyOf(j) == 0

\* One historical record, lines 113-115.
HistStep ==
    /\ pc = "mergeHist"
    /\ LET m == SetHistorical(byEmail, historical[idx])
           k == IndexOfEmail(byEmail, historical[idx].email)
           last == idx = Len(historical)
       IN  /\ byEmail' = m
           /\ alias' = IF k # 0 THEN [alias EXCEPT ![k] = CopyOf(idx)]
                       ELSE Append(alias, CopyOf(idx))
           /\ pc' = IF last THEN LoopFrom("mergeLive", historical, keiyoushi, m) ELSE pc
           /\ idx' = IF last THEN 1 ELSE idx + 1
    /\ UNCHANGED <<env, historicalCommitsCache, extensionPath, historical, commits,
                   parsed, keiyoushi, byIdentity, result>>

\* One live record, lines 117-127.
LiveStep ==
    /\ pc = "mergeLive"
    /\ LET m == MergeLive(byEmail, keiyoushi[idx])
           k == IndexOfEmail(byEmail, keiyoushi[idx].email)
           j == IF k # 0 THEN alias[k] ELSE 0
           last == idx = Len(keiyoushi)
       IN  /\ byEmail' = m
           /\ alias' = IF k # 0 THEN alias ELSE Append(alias, 0)
              \* existing.commits += ..., existing.firstCommit = ...: written
              \* to the object that `existing` is
           /\ historical' = IF j # 0 THEN [historical EXCEPT ![j] = m[k]] ELSE historical
           /\ historicalCommitsCache' =
                 IF j # 0
                 THEN <<[historicalCommitsCache[1]
                           EXCEPT !.extensions[extensionPath][j] = m[k]]>>
                 ELSE historicalCommitsCache
           /\ pc' = IF last THEN "dedupe" ELSE pc
           /\ idx' = IF last THEN 1 ELSE idx + 1
    /\ UNCHANGED <<env, extensionPath, commits, parsed, keiyoushi, byIdentity, result>>

\* One merged record, lines 132-154.
DedupeStep ==
    /\ pc = "dedupe"
    /\ byIdentity' = Dedupe(byIdentity, byEmail[idx])
    /\ pc' = IF idx = Len(byEmail) THEN "sort" ELSE pc
    /\ idx' = IF idx = Len(byEmail) THEN 1 ELSE idx + 1
    /\ UNCHANGED <<env, alias, historicalCommitsCache, extensionPath, historical, commits,
                   parsed, keiyoushi, byEmail, result>>

\* Lines 156-157.
Sort ==
    /\ pc = "sort"
    /\ result' = SortByFirstCommit(Values(byIdentity))
    /\ pc' = "done"
    /\ UNCHANGED <<env, alias, historicalCommitsCache, extensionPath, historical, commits,
                   parsed, keiyoushi, idx, byEmail, byIdentity>>

\* getAuthors has returned; its locals are gone, the cache stays.
Return ==
    /\ pc = "done"
    /\ pc' = "idle"
    /\ extensionPath' = ""
    /\ historical' = <<>>
    /\ keiyoushi' = <<>>
    /\ idx' = 0
    /\ byEmail' = <<>>
    /\ byIdentity' = <<>>
    /\ result' = <<>>
    /\ alias' = <<>>
    /\ UNCHANGED <<env, historicalCommitsCache, commits, parsed>>

Next ==
    \/ \E ext \in Units : GetAuthors(ext)
    \/ NoSourcePath
    \/ QueryFault
    \/ QueryOutput
    \/ ParseStep
    \/ ParseReturn
    \/ HistStep
    \/ LiveStep
    \/ DedupeStep
    \/ Sort
    \/ Return

Spec == Init /\ [][Next]_vars

\* ---------------------------------------------------------- the parser alone
\* Every kind of broken line, over a snapshot of at most one contributor.
ParserHistLists ==
    {<<>>} \cup { <<[email |-> E3, name |-> HistName(1), commits |-> HistCommits(1),
                     firstCommit |-> d]>> : d \in Days }
ParserLogs == LogsOver([j \in 1..MaxLines |-> AllLines(j)], MaxLines)
InitParser == InitWith(FilesOver(ParserHistLists), ParserLogs) /\ algebra = NoSources
SpecParser == InitParser /\ [][Next]_vars

\* ------------------------------------------- the addresses of one contributor
\* The live log is one commit of the address without domain.
IdentityLogs ==
    LogsOver([j \in 1..1 |-> { OkLine(e, j, d, t) : e \in {E3, E5}, d \in Days, t \in Times }], 1)
InitIdentity ==
    InitWith(FilesOver(HistListsOver(IdentityEmails)), IdentityLogs) /\ algebra = NoSources
SpecIdentity == InitIdentity /\ [][Next]_vars

\* ------------------------------------------------- several units, one cache
CacheUnits == {"en/a", "en/b"}
CacheEmails == {E1, E3}
CacheHistLists ==
    {<<>>} \cup { <<[email |-> e, name |-> HistName(1), commits |-> HistCommits(1),
                     firstCommit |-> d]>> : e \in CacheEmails, d \in Days }
CacheFiles ==
    {<<>>} \cup { <<[extensions |-> m]>> :
                  m \in UNION { [D -> CacheHistLists] : D \in SUBSET CacheUnits } }
CacheLogs ==
    LogsOver([j \in 1..1 |-> { OkLine(e, j, d, t) :
                                e \in CacheEmails, d \in Days, t \in Times }], 1)
InitCache == InitWith(CacheFiles, CacheLogs) /\ algebra = NoSources

\* git log is asked about `src/${extensionPath}`: between two calls of
\* getAuthors its output is another.
OtherLog ==
    /\ pc = "idle"
    /\ gitLog' \in CacheLogs \ {gitLog}
    /\ UNCHANGED <<file, algebra, alias, historicalCommitsCache, pc, extensionPath,
                   historical, commits, parsed, keiyoushi, idx, byEmail, byIdentity,
                   result>>

NextCache ==
    \/ \E ext \in CacheUnits : GetAuthors(ext)
    \/ OtherLog
    \/ NoSourcePath
    \/ QueryFault
    \/ QueryOutput
    \/ ParseStep
    \/ ParseReturn
    \/ HistStep
    \/ LiveStep
    \/ DedupeStep
    \/ Sort
    \/ Return

SpecCache == InitCache /\ [][NextCache]_vars

\* getAuthors as a function of the snapshot, the unit and the live records.
RECURSIVE DedupeAll(_, _)
DedupeAll(m, rs) == IF rs = <<>> THEN m ELSE DedupeAll(Dedupe(m, Head(rs)), Tail(rs))
AuthorsOf(data, ext, live) ==
    LET hist == IF ext \in DOMAIN data.extensions THEN data.extensions[ext] ELSE <<>>
    IN  SortByFirstCommit(Values(DedupeAll(<<>>, MergeByEmail(hist, live))))

\* ------------------------------------------------- the merge of three sources
\* A source is a per-address mapping of records: the parser's result, or the
\* result of a merge.
MergeEmails == {E3, E4}
MergeCommits == {1, 2}
MergeRecords ==
    { [email |-> e, name |-> "n", commits |-> c, firstCommit |-> d] :
      e \in MergeEmails, c \in MergeCommits, d \in Days }
Sources ==
    {<<>>} \cup { <<r>> : r \in MergeRecords }
           \cup { s \in MergeRecords \X MergeRecords : s[1].email # s[2].email }

InitMerge ==
    /\ InitWith({<<>>}, {<<>>})
    /\ algebra \in { [NoSources EXCEPT !.pc = "start", !.A = a, !.B = b, !.C = c] :
                      a \in Sources, b \in Sources, c \in Sources }

MergeInner ==
    /\ algebra.pc = "start"
    /\ algebra' = [algebra EXCEPT !.pc = "inner",
                                  !.AB = MergeByEmail(algebra.A, algebra.B),
                                  !.BA = MergeByEmail(algebra.B, algebra.A),
                                  !.BC = MergeByEmail(algebra.B, algebra.C)]
    /\ UNCHANGED <<file, gitLog, historicalCommitsCache, pc, extensionPath, historical,
                   commits, parsed, keiyoushi, idx, byEmail, byIdentity, result, alias>>

MergeOuter ==
    /\ algebra.pc = "inner"
    /\ algebra' = [algebra EXCEPT !.pc = "done",
                                  !.left = MergeByEmail(algebra.AB, algebra.C),
                                  !.right = MergeByEmail(algebra.A, algebra.BC)]
    /\ UNCHANGED <<file, gitLog, historicalCommitsCache, pc, extensionPath, historical,
                   commits, parsed, keiyoushi, idx, byEmail, byIdentity, result, alias>>

NextMerge == MergeInner \/ MergeOuter
SpecMerge == InitMerge /\ [][NextMerge]_vars

TypeOK == pc \in {"idle", "query", "parse", "mergeHist", "mergeLive", "dedupe", "sort", "done"}

\* ================================================================ properties
RECURSIVE SumCommits(_)
SumCommits(s) == IF s = <<>> THEN 0 ELSE Head(s).commits + SumCommits(Tail(s))

Min(S) == CHOOSE x \in S : \A y \in S : x <= y

\* getAuthors has returned `result` for `historical` and `keiyoushi`.
Done == pc = "done"

\* The ContactRecords getAuthors was given, of both sources.
Inputs == historical \o keiyoushi

\* No address occurs twice in the list.
DistinctEmails(s) == \A i, j \in 1..Len(s) : i # j => s[i].email # s[j].email

\* An address of the anonymized pattern, and its handle in lower case.
Anonymized(email) == extractGithubFromNoreply(email) # Null
FoldedHandle(email) == toLowerCase(extractGithubFromNoreply(email))

\* ----------------------------------------------------------------------- C1
\* C1 as stated: whatever the historical list and the live list, the commits
\* of the returned authors add up to the commits of all input records.
C1_AnyHistoricalList ==
    Done => SumCommits(result) = SumCommits(historical) + SumCommits(keiyoushi)

\* C1 (amended): when no address occurs twice in the historical list, the
\* commits of the returned authors add up to the commits of every input
\* record of both sources: none is lost, none is counted twice.
C1_CommitConservation ==
    (Done /\ DistinctEmails(historical))
        => SumCommits(result) = SumCommits(historical) + SumCommits(keiyoushi)

\* Both sources contribute, one address is in both, and two addresses have
\* collapsed into one author.
C1_Witness ==
    /\ Done
    /\ DistinctEmails(historical)
    /\ Len(historical) = 2
    /\ \E i \in 1..Len(historical), j \in 1..Len(keiyoushi) :
          /\ historical[i].email = keiyoushi[j].email
          /\ keiyoushi[j].commits = 2
    /\ Len(result) < Len(byEmail)

\* ----------------------------------------------------------------------- C3
\* The earliest firstCommit among the records of rs with the address, and
\* among those whose address has identity key k.
EarliestOfEmail(rs, email) ==
    Min({ rs[i].firstCommit : i \in { j \in 1..Len(rs) : rs[j].email = email } })
EarliestOfKey(rs, k) ==
    Min({ rs[i].firstCommit : i \in { j \in 1..Len(rs) : IdentityKey(rs[j].email) = k } })

FirstCommitIsMinimum ==
    /\ \A i \in 1..Len(byEmail) :
          byEmail[i].firstCommit = EarliestOfEmail(Inputs, byEmail[i].email)
    /\ \A i \in 1..Len(byIdentity) :
          byIdentity[i].firstCommit = EarliestOfKey(Inputs, byIdentity[i].key)
    /\ \A i \in 1..Len(result) : \E j \in 1..Len(byIdentity) :
          /\ result[i].name = byIdentity[j].name
          /\ result[i].firstCommit = byIdentity[j].firstCommit

\* C3 as stated: after the merge by email and the dedupe, every merged record
\* has the minimum firstCommit of all input records of its key.
C3_AnyHistoricalList == Done => FirstCommitIsMinimum

\* C3 (amended): when no address occurs twice in the historical list, every
\* record merged by email, and every deduplicated identity, has the minimum
\* firstCommit of all input records mapped to its key, in whatever order the
\* records were processed.
C3_FirstCommitMinimum == (Done /\ DistinctEmails(historical)) => FirstCommitIsMinimum

\* A live record is earlier than the historical record of its address, and a
\* later processed address is earlier than the identity it joins.
C3_Witness ==
    /\ Done
    /\ DistinctEmails(historical)
    /\ \E i \in 1..Len(historical), j \in 1..Len(keiyoushi) :
          /\ historical[i].email = keiyoushi[j].email
          /\ keiyoushi[j].firstCommit < historical[i].firstCommit
    /\ \E i, j \in 1..Len(byEmail) :
          /\ i < j
          /\ IdentityKey(byEmail[i].email) = IdentityKey(byEmail[j].email)
          /\ byEmail[j].firstCommit < byEmail[i].firstCommit

\* ----------------------------------------------------------------------- C4
\* Positions of the returned authors whose handle is k in lower case.
AuthorsOfHandle(k) ==
    { x \in 1..Len(result) :
        result[x].github # Null /\ toLowerCase(result[x].github) = k }

\* C4: two addresses of the anonymized pattern with the same handle in lower
\* case are one entry of the returned list; its github is a handle, and it
\* holds the commits of both.
C4_SameHandleCollapses ==
    Done => \A i, j \in 1..Len(byEmail) :
        (/\ i # j
         /\ Anonymized(byEmail[i].email)
         /\ Anonymized(byEmail[j].email)
         /\ FoldedHandle(byEmail[i].email) = FoldedHandle(byEmail[j].email))
        => /\ Cardinality(AuthorsOfHandle(FoldedHandle(byEmail[i].email))) = 1
           /\ \A x \in AuthorsOfHandle(FoldedHandle(byEmail[i].email)) :
                 result[x].commits >= byEmail[i].commits + byEmail[j].commits

\* 1+a@users.noreply.github.com and A@users.noreply.github.com are both in.
C4_Witness ==
    /\ Done
    /\ \E i, j \in 1..Len(byEmail) : byEmail[i].email = E1 /\ byEmail[j].email = E2
    /\ Len(result) >= 2

\* ----------------------------------------------------------------------- C5
\* C5: an address that is not of the anonymized pattern, and whose lower-case
\* form is the merge key of no other address, is one entry of the returned
\* list: github null, and the name, commits and firstCommit of its merged
\* record.
C5_PlainAddressOwnEntry ==
    Done => \A i \in 1..Len(byEmail) :
        (/\ ~Anonymized(byEmail[i].email)
         /\ \A j \in 1..Len(byEmail) :
               j # i => IdentityKey(byEmail[j].email) # toLowerCase(byEmail[i].email))
        => Cardinality({ x \in 1..Len(result) :
               result[x] = [github |-> Null, name |-> byEmail[i].name,
                            commits |-> byEmail[i].commits,
                            firstCommit |-> byEmail[i].firstCommit] }) = 1

\* a@x.com stands alone beside the handle a, with commits of both sources.
C5_Witness ==
    /\ Done
    /\ \E i, j \in 1..Len(byEmail) :
          /\ byEmail[i].email = E3
          /\ byEmail[i].commits > 10
          /\ byEmail[i].commits % 10 # 0
          /\ byEmail[j].email = E1
    /\ \A j \in 1..Len(byEmail) : byEmail[j].email # E4

\* ----------------------------------------------------------------------- C6
\* C6: the returned list is ascending in firstCommit.
C6_SortedByFirstCommit ==
    Done => \A x \in 1..(Len(result) - 1) :
        result[x].firstCommit <= result[x + 1].firstCommit

\* The sort has changed the order of the identities.
C6_Witness ==
    /\ Done
    /\ Len(result) >= 2
    /\ result # Values(byIdentity)

\* ----------------------------------------------------------------------- C7
\* The returned list has one entry for each historical record, with its name,
\* commits and firstCommit.
SnapshotReturned ==
    /\ Len(result) = Len(historical)
    /\ \A i \in 1..Len(historical) : \E x \in 1..Len(result) :
          /\ result[x].name = historical[i].name
          /\ result[x].commits = historical[i].commits
          /\ result[x].firstCommit = historical[i].firstCommit

\* No two addresses of the list have the same identity key.
DistinctKeys(s) ==
    \A i, j \in 1..Len(s) : i # j => IdentityKey(s[i].email) # IdentityKey(s[j].email)

\* C7 as stated: without live records, the returned list is the historical
\* snapshot of the unit: as many entries, each with the snapshot's name,
\* commits and firstCommit.
C7_AnySnapshot == (Done /\ keiyoushi = <<>>) => SnapshotReturned

\* The entries of the returned list stand in ascending firstCommit, those of
\* one date in the order of the snapshot.
PositionOf(name) == CHOOSE x \in 1..Len(result) : result[x].name = name
SnapshotOrder ==
    \A i, j \in 1..Len(historical) :
        (\/ historical[i].firstCommit < historical[j].firstCommit
         \/ historical[i].firstCommit = historical[j].firstCommit /\ i < j)
        => PositionOf(historical[i].name) < PositionOf(historical[j].name)

\* C7 (amended): without live records, and when no two addresses of the
\* snapshot have the same identity key, the returned list has as many entries
\* as the snapshot, each with the snapshot's name, commits and firstCommit,
\* in ascending order of firstCommit.
C7_SnapshotReturned ==
    (Done /\ keiyoushi = <<>> /\ DistinctKeys(historical))
        => SnapshotReturned /\ SnapshotOrder

\* The log has a complete line, yet no live record came back (the query
\* failed or the source path is missing); the snapshot has two contributors,
\* the later one first.
C7_Witness ==
    /\ Done
    /\ keiyoushi = <<>>
    /\ \E j \in 1..Len(gitLog) : gitLog[j] \in OkLines(j)
    /\ Len(historical) = 2
    /\ DistinctKeys(historical)
    /\ historical[2].firstCommit < historical[1].firstCommit

\* ----------------------------------------------------------------------- C8
\* A line with an address, a name and a date.
Complete(line) ==
    /\ Len(line) >= 3
    /\ line[1] # <<>>
    /\ line[2] # ""
    /\ line[3] # <<>>
WithoutIncomplete(ls) == SelectSeq(ls, Complete)

\* The parser has read every line of the log.
Parsed == pc = "parse" /\ commits = <<>>

\* C8: a line without address, name or date makes no record, and the records
\* of the parser are those of the log without such lines.
C8_IncompleteLineDropped ==
    Parsed =>
        /\ \A i \in 1..Len(parsed) : \E j \in 1..Len(gitLog) :
              Complete(gitLog[j]) /\ gitLog[j][1] = parsed[i].email
        /\ parsed = ParseLines(<<>>, Reverse(WithoutIncomplete(gitLog)))

\* "a@x.com|l|" stands beside a complete line of a@x.com.
C8_Witness ==
    /\ Parsed
    /\ \E j \in 1..Len(gitLog) : gitLog[j] = NoDateLine(j)
    /\ \E i \in 1..Len(parsed) : parsed[i].email = E3
    /\ Len(gitLog) > SumCommits(parsed)

\* ----------------------------------------------------------------------- C9
\* Positions in byEmail of the merged records of identity key k.
RecordsOfKey(k) == { i \in 1..Len(byEmail) : IdentityKey(byEmail[i].email) = k }
\* The first of them, in the order of the loop, with the earliest firstCommit.
EarliestRecord(k) ==
    Min({ i \in RecordsOfKey(k) :
            \A j \in RecordsOfKey(k) : byEmail[i].firstCommit <= byEmail[j].firstCommit })

\* C9: the name of a returned author is the name of the merged record that
\* supplies the earliest firstCommit of its identity key: name and date are
\* replaced together, by a strictly earlier record.
C9_NameOfEarliestRecord ==
    Done => \A x \in 1..Len(byIdentity) :
        /\ byIdentity[x].name = byEmail[EarliestRecord(byIdentity[x].key)].name
        /\ byIdentity[x].firstCommit = byEmail[EarliestRecord(byIdentity[x].key)].firstCommit
        /\ \E y \in 1..Len(result) :
              /\ result[y].name = byIdentity[x].name
              /\ result[y].firstCommit = byIdentity[x].firstCommit

\* A later processed record of the identity is strictly earlier and has given
\* its name.
C9_Witness ==
    /\ Done
    /\ \E x \in 1..Len(byIdentity) :
          LET first == Min(RecordsOfKey(byIdentity[x].key))
          IN  /\ EarliestRecord(byIdentity[x].key) > first
              /\ byIdentity[x].name # byEmail[first].name

\* ---------------------------------------------------------------------- C10
\* Two addresses without handle, alone under one identity key, with the same
\* firstCommit; i is processed before j.
NameTie(i, j) ==
    /\ i < j
    /\ RecordsOfKey(IdentityKey(byEmail[i].email)) = {i, j}
    /\ ~Anonymized(byEmail[i].email)
    /\ ~Anonymized(byEmail[j].email)
    /\ byEmail[i].firstCommit = byEmail[j].firstCommit
IdentityOf(i) == byIdentity[IndexOfKey(byIdentity, IdentityKey(byEmail[i].email))]

\* C10 as stated: in a name tie the record processed later gives the name.
C10_LaterWinsTie ==
    Done => \A i, j \in 1..Len(byEmail) :
        NameTie(i, j) => IdentityOf(i).name = byEmail[j].name

\* C10 (amended): in a name tie the record processed first gives the name.
C10_FirstWinsTie ==
    Done => \A i, j \in 1..Len(byEmail) :
        NameTie(i, j) => IdentityOf(i).name = byEmail[i].name

\* a@x.com and A@x.com of the same day.
C10_Witness ==
    /\ Done
    /\ \E i, j \in 1..Len(byEmail) : NameTie(i, j) /\ byEmail[i].name # byEmail[j].name

\* ----------------------------------------------------------------------- C2
\* Commits that source m records for the address.
CountOf(m, email) ==
    SumCommits(SelectSeq(m, LAMBDA r : r.email = email))

C11_HandleKept ==
    [][pc = "dedupe" =>
         \A x \in 1..Len(byIdentity) :
            byIdentity[x].github # Null =>
               /\ x <= Len(byIdentity')
               /\ byIdentity'[x].key = byIdentity[x].key
               /\ byIdentity'[x].github = byIdentity[x].github]_vars

\* The loop is over; an anonymized address made the identity, the address
\* without domain and an anonymized address of another case came later.
C11_Witness ==
    /\ pc = "sort"
    /\ \E i, j, l \in 1..Len(byEmail) :
          /\ i < j /\ i = Min(RecordsOfKey(IdentityKey(byEmail[i].email)))
          /\ Anonymized(byEmail[i].email)
          /\ byEmail[j].email = E5
          /\ byEmail[l].email = E2
          /\ byEmail[i].email # E2
          /\ IdentityOf(j).github = extractGithubFromNoreply(byEmail[i].email)

\* ---------------------------------------------------------------------- C12
\* Positions of the complete lines of the log with the address, and of the
\* parser's records of the address.
CompleteLinesOf(email) ==
    { j \in 1..Len(gitLog) : Complete(gitLog[j]) /\ gitLog[j][1] = email }
ParsedOf(email) == { i \in 1..Len(parsed) : parsed[i].email = email }

\* C12: the parser has exactly one record for every address with a complete
\* line: its commits are the number of those lines, its firstCommit is the
\* earliest of their days (the date left of the "T"); an address without a
\* complete line has no record, in whatever order the lines stand.
C12_ParserTallies ==
    Parsed =>
        /\ \A e \in LiveEmails :
              IF CompleteLinesOf(e) = {} THEN ParsedOf(e) = {}
              ELSE /\ Cardinality(ParsedOf(e)) = 1
                   /\ \A i \in ParsedOf(e) :
                         /\ parsed[i].commits = Cardinality(CompleteLinesOf(e))
                         /\ parsed[i].firstCommit
                               = Min({ gitLog[j][3][1] : j \in CompleteLinesOf(e) })
        /\ \A i \in 1..Len(parsed) :
              /\ CompleteLinesOf(parsed[i].email) # {}
              /\ parsed[i].commits >= 1

\* Two commits of one address at different times of different days; the line
\* read last has the earlier day.
C12_Witness ==
    /\ Parsed
    /\ Len(gitLog) = 2
    /\ Len(parsed) = 1
    /\ parsed[1].commits = 2
    /\ gitLog[1][3][2] # gitLog[2][3][2]
    /\ gitLog[1][3][1] < gitLog[2][3][1]
    /\ parsed[1].firstCommit = gitLog[1][3][1]

\* ---------------------------------------------------------------------- C13
\* Every entry of the map `old` is in `new` at its place, with no fewer
\* commits and no later firstCommit.
EntriesMonotone(old, new) ==
    \A i \in 1..Len(old) :
        /\ i <= Len(new)
        /\ new[i].commits >= old[i].commits
        /\ new[i].firstCommit <= old[i].firstCommit

\* A step of the parser's loop, of the two loops of the merge by email and
\* of the dedupe loop.
StepMonotone ==
    /\ (pc = "parse" /\ commits # <<>>) => EntriesMonotone(parsed, parsed')
    /\ pc \in {"mergeHist", "mergeLive"} => EntriesMonotone(byEmail, byEmail')
    /\ pc = "dedupe" => EntriesMonotone(byIdentity, byIdentity')

\* C13 as stated: in every step of the three loops the commits of an entry
\* do not decrease and its firstCommit does not become later.
C13_AnyHistoricalList == [][StepMonotone]_vars

\* C13 (amended): when no address occurs twice in the historical list, in
\* every step of the parser's loop, of the merge by email and of the dedupe
\* loop the commits of an existing entry do not decrease and its firstCommit
\* does not become later.
C13_StepsMonotone == [][DistinctEmails(historical) => StepMonotone]_vars

\* All loops are over: the parser counted an address twice, the live record
\* moved the date of a historical address, and the dedupe that of an
\* identity.
C13_Witness ==
    /\ pc = "sort"
    /\ DistinctEmails(historical)
    /\ \E i \in 1..Len(historical), j \in 1..Len(keiyoushi) :
          /\ historical[i].email = keiyoushi[j].email
          /\ keiyoushi[j].commits = 2
          /\ keiyoushi[j].firstCommit < historical[i].firstCommit
    /\ \E x \in 1..Len(byIdentity) :
          /\ Cardinality(RecordsOfKey(byIdentity[x].key)) = 2
          /\ EarliestRecord(byIdentity[x].key) # Min(RecordsOfKey(byIdentity[x].key))

\* ---------------------------------------------------------------------- C14
\* What loadHistoricalCommits reads from the disk.
FileData == IF file # <<>> THEN file[1] ELSE [extensions |-> [u \in {} |-> <<>>]]

\* C14: once loaded, the cached snapshot is never loaded again and never
\* changed, whatever units are resolved and whatever live records they have;
\* so every result is that of the snapshot as it was loaded, of the unit and
\* of its live records alone.
C14_SnapshotNeverMutated ==
    /\ [][historicalCommitsCache # <<>>
             => historicalCommitsCache' = historicalCommitsCache]_vars
    /\ [](historicalCommitsCache # <<>> => historicalCommitsCache[1] = FileData)
    /\ [](Done => result = AuthorsOf(FileData, extensionPath, keiyoushi))

\* The snapshot has both units; for en/b a live record was merged into the
\* record of its address, and the snapshot is as loaded.
C14_Witness ==
    /\ Done
    /\ extensionPath = "en/b"
    /\ DOMAIN historicalCommitsCache[1].extensions = CacheUnits
    /\ historicalCommitsCache[1].extensions["en/a"] # <<>>
    /\ historicalCommitsCache[1].extensions["en/b"] # <<>>
    /\ \E i \in 1..Len(byEmail) :
          /\ byEmail[i].email = historicalCommitsCache[1].extensions["en/b"][1].email
          /\ byEmail[i].commits > historicalCommitsCache[1].extensions["en/b"][1].commits

\* ---------------------------------------------------------------------- C15
\* Position in the input (the snapshot's list, then the parser's records) of
\* the first record of identity key k.
FirstInput(k) ==
    Min({ i \in 1..Len(Inputs) : IdentityKey(Inputs[i].email) = k })

\* C15: identities are inserted in the order of the first record of their
\* key (the snapshot's order, then the parser's), and two identities of the
\* same firstCommit stand in the returned list in that order.
C15_StableOrder ==
    Done => \A x, y \in 1..Len(byIdentity) :
        x < y =>
            /\ FirstInput(byIdentity[x].key) < FirstInput(byIdentity[y].key)
            /\ byIdentity[x].firstCommit = byIdentity[y].firstCommit
                  => PositionOf(byIdentity[x].name) < PositionOf(byIdentity[y].name)

\* Two identities of one day: the first from the snapshot, the second from an
\* address only the live log has.
C15_Witness ==
    /\ Done
    /\ Len(result) = 2
    /\ result[1].firstCommit = result[2].firstCommit
    /\ historical # <<>>
    /\ \E j \in 1..Len(keiyoushi) :
          /\ IndexOfEmail(historical, keiyoushi[j].email) = 0
          /\ byIdentity[2].key = IdentityKey(keiyoushi[j].email)
          /\ byIdentity[2].name = keiyoushi[j].name

\* ---------------------------------------------------------------------- C16
\* <handle>@<anonymization domain>, and the same address behind a numeric
\* prefix.
PlainNoreply(email) == Len(email) = 3 /\ email[2] = "@" /\ email[3] = NOREPLY
Prefixed(email) == <<"1", "+">> \o email
\* An address of another domain.
Personal(email) ==
    /\ Len(email) >= 3
    /\ email[Len(email) - 1] = "@"
    /\ email[Len(email)] # NOREPLY
IdentityIndex(i) == IndexOfKey(byIdentity, IdentityKey(byEmail[i].email))

\* C16: handle@domain and digits+handle@domain derive the same handle and are
\* one identity; an address of another domain is an identity of its own,
\* without a handle, that no anonymized address is merged into.
C16_PrefixOptional ==
    Done =>
        /\ \A i, j \in 1..Len(byEmail) :
              (PlainNoreply(byEmail[i].email)
                  /\ byEmail[j].email = Prefixed(byEmail[i].email))
              => /\ extractGithubFromNoreply(byEmail[i].email) = <<byEmail[i].email[1]>>
                 /\ extractGithubFromNoreply(byEmail[j].email)
                       = extractGithubFromNoreply(byEmail[i].email)
                 /\ IdentityIndex(i) = IdentityIndex(j)
        /\ \A i \in 1..Len(byEmail) :
              Personal(byEmail[i].email)
              => /\ NoAt(IdentityKey(byEmail[i].email)) = FALSE
                 /\ IdentityOf(i).github = Null
                 /\ \A j \in 1..Len(byEmail) :
                       (PlainNoreply(byEmail[j].email)
                           \/ \E e \in IdentityEmails :
                                 PlainNoreply(e) /\ byEmail[j].email = Prefixed(e))
                       => /\ NoAt(IdentityKey(byEmail[j].email))
                          /\ IdentityIndex(j) # IdentityIndex(i)

\* handle@domain, digits+handle@domain and a personal address have all been
\* deduplicated: two identities.
C16_Witness ==
    /\ Done
    /\ Len(byIdentity) = 2
    /\ \E i, j, l \in 1..Len(byEmail) :
          /\ byEmail[i].email = E6
          /\ byEmail[j].email = E1
          /\ byEmail[l].email = E3
          /\ IdentityIndex(i) = IdentityIndex(j)
          /\ IdentityIndex(l) # IdentityIndex(i)

====
